---- MODULE Spec2Model ----
(***************************************************************************)
(* Model of src/scanner.c, the external scanner of tree-sitter-raku: the   *)
(* brace stack, the heredoc stack, the session object that owns both, and  *)
(* the serializer.                                                         *)
(*                                                                         *)
(* The two stacks are linked frames in two heaps (bmem, hmem); a frame is  *)
(* addressed by a positive integer and NULL is 0.  The file defines the    *)
(* stack functions and create/destroy/serialize but no scan function, so   *)
(* each stack action below is the call `state->current_x = f(state->       *)
(* current_x, ...)` that the functions' signatures are written for.        *)
(* Spec is the session under these calls, SpecFrames the same session      *)
(* started on heredoc stacks that hold frames, SpecScan the session under  *)
(* the scan of the design's decision policy.                               *)
(*                                                                         *)
(* Reading of the places where the file is not valid C:                    *)
(*   line 140  BACE_TABLE_MAX      read as the bound of BRACE_TABLE        *)
(*   line 146  new_head->close     read as the field closing_brace         *)
(*   line 177  calloc(size)        read as calloc(1, size)                 *)
(*   line 226  elem = elem->next;) read as elem = elem->next               *)
(*   line 245  elem (not in scope) read as the loop's own variable hd      *)
(*                                                                         *)
(* assert() either aborts the process or, in a build with NDEBUG, is       *)
(* compiled out; the build is chosen in Init (ndebug).                     *)
(*                                                                         *)
(* Memory is modelled in 32-bit words: a uint32_t is one word and a size_t *)
(* two (low word first).  Every offset the serializer produces is a        *)
(* multiple of four bytes.                                                 *)
(***************************************************************************)
EXTENDS Integers, Sequences, FiniteSets, TLC

VARIABLES
  ndebug,           \* the build: TRUE when assert() is compiled out
  status,           \* "running" | "aborted" | "crashed" | "destroyed"
  bmem,             \* heap of struct brace_stack frames
  current_brace,    \* state->current_brace
  hmem,             \* heap of struct heredoc_stack frames
  current_heredoc,  \* state->current_heredoc
  op,               \* the last operation called
  arg,              \* its input (a sequence of codepoints, or a length)
  ret,              \* its return value
  buffer,           \* the words the last serialize wrote, from offset 0
  decoded,          \* what the last decode produced
  b_net,            \* brace pushes executed minus brace pops executed
  hd_pushed,        \* sentinels of the heredoc pushes executed, in order
  hd_popped,        \* sentinels of the frames removed by executed pops
  alloc_failed,     \* whether malloc/calloc returned NULL in the last operation
  b_saved,          \* the brace stack as it was before each push still open
  b_run             \* brace pops executed since the last brace push

vars == <<ndebug, status, bmem, current_brace, hmem, current_heredoc,
          op, arg, ret, buffer, decoded, b_net, hd_pushed, hd_popped,
          alloc_failed, b_saved, b_run>>

(***************************************************************************)
(* Bounds of the model.                                                    *)
(***************************************************************************)
\* brace frames above the root
MaxBrace == 3
\* heredoc frames above the root, and heredoc pushes
MaxHeredoc == 2
\* The host's TREE_SITTER_SERIALIZATION_BUFFER_SIZE (1024 bytes in
\* tree_sitter/parser.h) scaled down, in bytes, so that the stacks the
\* model can build reach it.  The serializer's code does not depend on the
\* value.
BufferSize == 24

(***************************************************************************)
(* Pointers.                                                               *)
(***************************************************************************)
NULL == 0
\* a pointer value that addresses no frame
WILD == -1

BAddr == 1 .. (MaxBrace + 1)
HAddr == 1 .. (MaxHeredoc + 1)

\* sizeof, in words
SizeofSizeT == 2
SizeofU32 == 1
BytesPerWord == 4

(***************************************************************************)
(* brace_table.h, which scanner.c includes: the static table of asymmetric *)
(* pairs.  An entry of 0 means "no closing character registered".          *)
(***************************************************************************)
BRACE_TABLE_MAX == 128

BRACE_TABLE(c) ==
  CASE c = 40  -> 41      \* ( )
    [] c = 60  -> 62      \* < >
    [] c = 91  -> 93      \* [ ]
    [] c = 123 -> 125     \* { }
    [] OTHER   -> 0

\* Opening characters the actions draw from: ( and [ with a registered pair,
\* " below the table's bound without a pair, U+300C beyond the table.
OpeningChars == {40, 91, 34, 12300}

\* Sentinels and flag words the heredoc operations draw from.
END1 == <<69, 49>>
END2 == <<69, 50>>
Sentinels == {END1, END2}
\* all_flags: bit 0 may_interp_closure, bit 1 may_interp_scalar, ...
FlagWords == {0, 2}

(***************************************************************************)
(* struct brace_stack and its heap.                                        *)
(***************************************************************************)
NoBraceFrame == [live |-> FALSE, depth |-> 0, closing_brace |-> 0, next |-> NULL]

brace_stack(d, c, n) == [live |-> TRUE, depth |-> d, closing_brace |-> c, next |-> n]

\* Whether p addresses a frame that can be dereferenced.
BValid(mem, p) == p \in BAddr /\ mem[p].live

\* malloc: the least free address (the properties do not depend on which).
BMalloc(mem) == CHOOSE a \in BAddr : ~mem[a].live /\ \A b \in BAddr : (~mem[b].live) => a <= b

\* free(head)
BFree(mem, head) == [mem EXCEPT ![head] = NoBraceFrame]

\* Outcome of a call: how it ended, the heap it leaves, what it returned.
Outcome(o, m, r) == [outcome |-> o, mem |-> m, ret |-> r]

\* assert(cond): abort, or nothing under NDEBUG
AssertFails(cond) == ~ndebug /\ ~cond

RECURSIVE brace_stack_free(_, _)
brace_stack_free(mem, head) ==
  IF head = NULL THEN Outcome("ok", mem, NULL)
  ELSE IF mem[head].next = head
       \* the assertion, or without it a recursion that never returns
       THEN Outcome(IF ndebug THEN "crashed" ELSE "aborted", mem, NULL)
  ELSE LET r == brace_stack_free(mem, mem[head].next)
       IN  IF r.outcome # "ok" THEN r
           ELSE Outcome("ok", BFree(r.mem, head), NULL)

\* The closing character brace_stack_push stores for an opening character.
ClosingBrace(brace) ==
  IF brace < BRACE_TABLE_MAX /\ BRACE_TABLE(brace) # 0
  THEN BRACE_TABLE(brace)
  ELSE brace

\* alloc_ok: whether malloc returns a frame (FALSE: it returns NULL).
brace_stack_push(mem, head, brace, alloc_ok) ==
  IF AssertFails(head # NULL) THEN Outcome("aborted", mem, NULL)
  ELSE IF ~alloc_ok THEN Outcome("crashed", mem, NULL)   \* new_head->depth = ... through NULL
  ELSE IF head = NULL THEN Outcome("crashed", mem, NULL) \* head->depth through NULL
  ELSE LET new_head == BMalloc(mem)
       IN  Outcome("ok",
                   [mem EXCEPT ![new_head] =
                      brace_stack(mem[head].depth + 1, ClosingBrace(brace), head)],
                   new_head)

\* brace_stack_pop without line 161: the link of the popped frame is still
\* set when it is freed, so the frames beneath go with it.
brace_stack_pop_linked(mem, head) ==
  IF AssertFails(head # NULL) THEN Outcome("aborted", mem, NULL)
  ELSE IF head = NULL THEN Outcome("crashed", mem, NULL)
  ELSE IF AssertFails(mem[head].depth > 0) THEN Outcome("aborted", mem, NULL)
  ELSE IF AssertFails(mem[head].next # NULL) THEN Outcome("aborted", mem, NULL)
  ELSE LET next == mem[head].next
           r    == brace_stack_free(mem, head)
       IN  Outcome(r.outcome, r.mem, next)

brace_stack_pop(mem, head) ==
  IF AssertFails(head # NULL) THEN Outcome("aborted", mem, NULL)
  ELSE IF head = NULL THEN Outcome("crashed", mem, NULL)  \* head->depth through NULL
  ELSE IF AssertFails(mem[head].depth > 0) THEN Outcome("aborted", mem, NULL)
  ELSE IF AssertFails(mem[head].next # NULL) THEN Outcome("aborted", mem, NULL)
  ELSE LET next == mem[head].next
           r    == brace_stack_free([mem EXCEPT ![head].next = NULL], head)
       IN  Outcome(r.outcome, r.mem, next)

(***************************************************************************)
(* struct heredoc_stack and its heap.                                      *)
(***************************************************************************)
NoHeredocFrame ==
  [live |-> FALSE, depth |-> 0, sentinel |-> <<>>, sentinel_length |-> 0,
   all_flags |-> 0, next |-> NULL]

heredoc_stack(d, s, f, n) ==
  [live |-> TRUE, depth |-> d, sentinel |-> s, sentinel_length |-> Len(s),
   all_flags |-> f, next |-> n]

\* Whether p addresses a frame that can be dereferenced.
HValid(mem, p) == p \in HAddr /\ mem[p].live

\* Line 77 calls heredoc_stack_free(head) with the argument it was called
\* with, so for a non-null head the call never returns and line 79 is never
\* reached: the recursion ends only when the stack of the process is
\* exhausted.
heredoc_stack_free(mem, head) ==
  IF head = NULL THEN Outcome("ok", mem, NULL)
  ELSE IF ~HValid(mem, head) THEN Outcome("crashed", mem, NULL)
  ELSE IF AssertFails(mem[head].next # head) THEN Outcome("aborted", mem, NULL)
  ELSE Outcome("crashed", mem, NULL)

\* Values the caller can receive from heredoc_stack_push, whose body ends
\* without a return statement (line 86): what the return register happens
\* to hold.
Indeterminate(head) == {head, NULL, WILD}

\* junk: the value the caller receives.  No frame is allocated and the
\* sentinel is not read.
heredoc_stack_push(mem, head, sentinel, junk) ==
  IF AssertFails(head # NULL) THEN Outcome("aborted", mem, NULL)
  ELSE Outcome("ok", mem, junk)

heredoc_stack_pop(mem, head) ==
  IF AssertFails(head # NULL) THEN Outcome("aborted", mem, NULL)
  ELSE IF ~HValid(mem, head) THEN Outcome("crashed", mem, NULL)
  ELSE IF AssertFails(mem[head].depth > 0) THEN Outcome("aborted", mem, NULL)
  ELSE IF AssertFails(mem[head].next # NULL) THEN Outcome("aborted", mem, NULL)
  ELSE LET next == mem[head].next
           r    == heredoc_stack_free([mem EXCEPT ![head].next = NULL], head)
       IN  Outcome(r.outcome, r.mem, next)

(***************************************************************************)
(* Reading a stack: the frames from the root to the top.                   *)
(***************************************************************************)
RECURSIVE BraceChain(_, _)
BraceChain(mem, p) ==
  IF p = NULL THEN <<>> ELSE Append(BraceChain(mem, mem[p].next), p)

RECURSIVE HeredocChain(_, _)
HeredocChain(mem, p) ==
  IF p = NULL \/ ~HValid(mem, p) THEN <<>>
  ELSE Append(HeredocChain(mem, mem[p].next), p)

\* The non-root frames' contents, from the root outward.
BraceList(mem, p) ==
  LET ch == BraceChain(mem, p)
  IN  [i \in 1 .. (Len(ch) - 1) |-> mem[ch[i + 1]].closing_brace]

HeredocList(mem, p) ==
  LET ch == HeredocChain(mem, p)
  IN  [i \in 1 .. (Len(ch) - 1) |->
         [sentinel |-> mem[ch[i + 1]].sentinel, all_flags |-> mem[ch[i + 1]].all_flags]]

\* The brace stack whose top is p, frame by frame from the root: each
\* frame's address and contents.
BraceSnapshot(mem, p) ==
  LET ch == BraceChain(mem, p)
  IN  [i \in 1 .. Len(ch) |-> [addr |-> ch[i], frame |-> mem[ch[i]]]]

(***************************************************************************)
(* tree_sitter_raku_external_scanner_create                                *)
(***************************************************************************)
\* A root taken from malloc instead of calloc, its link never cleared.
CreateBraceHeapUncleared ==
  [a \in BAddr |-> IF a = 1 THEN brace_stack(0, 0, WILD) ELSE NoBraceFrame]

CreateBraceHeap == [a \in BAddr |-> IF a = 1 THEN brace_stack(0, 0, NULL) ELSE NoBraceFrame]

CreateHeredocHeap ==
  [a \in HAddr |-> IF a = 1 THEN heredoc_stack(0, <<>>, 0, NULL) ELSE NoHeredocFrame]

(***************************************************************************)
(* tree_sitter_raku_external_scanner_destroy                               *)
(***************************************************************************)
\* The outcome, and the two heaps it leaves.
scanner_destroy ==
  IF AssertFails(current_brace # NULL) \/ AssertFails(current_heredoc # NULL)
  THEN [outcome |-> "aborted", bmem |-> bmem, hmem |-> hmem]
  ELSE LET rb == brace_stack_free(bmem, current_brace)
       IN  IF rb.outcome # "ok"
           THEN [outcome |-> rb.outcome, bmem |-> rb.mem, hmem |-> hmem]
           ELSE LET rh == heredoc_stack_free(hmem, current_heredoc)
                IN  [outcome |-> IF rh.outcome = "ok" THEN "destroyed" ELSE rh.outcome,
                     bmem |-> rb.mem, hmem |-> rh.mem]

(***************************************************************************)
(* tree_sitter_raku_external_scanner_serialize                             *)
(***************************************************************************)
\* A value no count or length of the model reaches: what a size_t with a
\* non-zero high word stands for.
Huge == 2 ^ 30

\* BUF_WRITE(ptr, uint32_t, what)
BUF_WRITE_U32(buf, what) == Append(buf, what)

\* BUF_WRITE(ptr, size_t, what): the low word, then the high word, which is
\* 0 for every value below 2^32.
BUF_WRITE_SIZE(buf, what) == buf \o <<what, 0>>

\* BUF_WRITE_ARRAY without its first line: the elements, no count.
BUF_WRITE_ARRAY_uncounted(buf, count, head) == buf \o SubSeq(head, 1, count)

\* BUF_WRITE_ARRAY(ptr, uint32_t, count, head)
BUF_WRITE_ARRAY(buf, count, head) == BUF_WRITE_SIZE(buf, count) \o SubSeq(head, 1, count)

Bytes(buf) == Len(buf) * BytesPerWord

\* The loop of lines 224-231, from frame elem, appending to buf.
RECURSIVE WriteBraces(_, _, _)
WriteBraces(mem, elem, buf) ==
  IF mem[elem].depth > 0
  THEN IF AssertFails(mem[elem].next # NULL) THEN [outcome |-> "aborted", buf |-> buf]
       ELSE LET b == BUF_WRITE_U32(buf, mem[elem].closing_brace)
            IN  IF mem[elem].next = NULL THEN [outcome |-> "crashed", buf |-> b]
                ELSE WriteBraces(mem, mem[elem].next, b)
  ELSE [outcome |-> "ok", buf |-> buf]

\* The loop of lines 241-249.
RECURSIVE WriteHeredocs(_, _, _)
WriteHeredocs(mem, hd, buf) ==
  IF mem[hd].depth > 0
  THEN IF AssertFails(mem[hd].next # NULL) THEN [outcome |-> "aborted", buf |-> buf]
       ELSE LET b == BUF_WRITE_ARRAY(BUF_WRITE_U32(buf, mem[hd].all_flags),
                                     mem[hd].sentinel_length, mem[hd].sentinel)
            IN  IF ~HValid(mem, mem[hd].next) THEN [outcome |-> "crashed", buf |-> b]
                ELSE WriteHeredocs(mem, mem[hd].next, b)
  ELSE [outcome |-> "ok", buf |-> buf]

\* buf holds every word written from offset 0 on, also those written at or
\* beyond the capacity of the caller's buffer.
Serialized(o, b) == [outcome |-> o, buf |-> b, ret |-> IF o = "ok" THEN Bytes(b) ELSE 0]

scanner_serialize ==
  IF AssertFails(current_brace # NULL) \/ AssertFails(current_heredoc # NULL)
  THEN Serialized("aborted", <<>>)
  ELSE IF current_brace = NULL THEN Serialized("crashed", <<>>)
  ELSE LET r1 == WriteBraces(bmem, current_brace,
                             BUF_WRITE_SIZE(<<>>, bmem[current_brace].depth))
       IN  IF r1.outcome # "ok" THEN Serialized(r1.outcome, r1.buf)
           ELSE IF AssertFails(Bytes(r1.buf) <= BufferSize) THEN Serialized("aborted", r1.buf)
           ELSE IF ~HValid(hmem, current_heredoc) THEN Serialized("crashed", r1.buf)
           ELSE LET r2 == WriteHeredocs(hmem, current_heredoc,
                                        BUF_WRITE_SIZE(r1.buf, hmem[current_heredoc].depth))
                IN  IF r2.outcome # "ok" THEN Serialized(r2.outcome, r2.buf)
                    ELSE IF AssertFails(Bytes(r2.buf) <= BufferSize)
                         THEN Serialized("aborted", r2.buf)
                    ELSE Serialized("ok", r2.buf)

(***************************************************************************)
(* Decoding.  The file defines the two reading macros (lines 261-269) and  *)
(* no function that uses them; Deserialize below is the decoder the        *)
(* serializer's layout calls for, written with the macros as they are.     *)
(* An offset is a number of words from the start of the slice.             *)
(***************************************************************************)
\* What a read gives: whether every word it read lies in the slice, the
\* value, the pointer after it, and the end of the words it read.
ReadResult(ok, val, ptr, hi) == [ok |-> ok, val |-> val, ptr |-> ptr, hi |-> hi]

\* BUF_READ(ptr, uint32_t, dest): no length is known to the macro.
BUF_READ_U32(slice, ptr) ==
  LET ok == ptr + SizeofU32 <= Len(slice)
  IN  ReadResult(ok, IF ok THEN slice[ptr + 1] ELSE 0, ptr + SizeofU32, ptr + SizeofU32)

\* BUF_READ(ptr, size_t, dest)
BUF_READ_SIZE(slice, ptr) ==
  LET ok == ptr + SizeofSizeT <= Len(slice)
  IN  ReadResult(ok,
                 IF ~ok THEN 0 ELSE IF slice[ptr + 2] = 0 THEN slice[ptr + 1] ELSE Huge,
                 ptr + SizeofSizeT, ptr + SizeofSizeT)

\* BUF_READ_ARRAY(ptr, uint32_t, dest): reads the length, steps over it,
\* copies that many elements, and leaves ptr at the first element.
BUF_READ_ARRAY(slice, ptr) ==
  LET len  == BUF_READ_SIZE(slice, ptr)
      from == len.ptr
      ok   == len.ok /\ from + len.val * SizeofU32 <= Len(slice)
  IN  ReadResult(ok, IF ok THEN SubSeq(slice, from + 1, from + len.val) ELSE <<>>,
                 from, IF len.ok THEN from + len.val * SizeofU32 ELSE from)

Decoded(o, b, h, hi, n) ==
  [outcome |-> o, braces |-> b, heredocs |-> h, rd_hi |-> hi, length |-> n]

NoDecode == Decoded("none", <<>>, <<>>, 0, 0)

Max(a, b) == IF a >= b THEN a ELSE b

\* k closing braces from ptr on; the serializer wrote the top frame first,
\* so each value read goes beneath the ones read before it.
RECURSIVE ReadBraces(_, _, _, _)
ReadBraces(slice, ptr, k, acc) ==
  IF k = 0 THEN [ok |-> TRUE, val |-> acc, ptr |-> ptr, hi |-> ptr]
  ELSE LET r == BUF_READ_U32(slice, ptr)
       IN  IF ~r.ok THEN [ok |-> FALSE, val |-> acc, ptr |-> r.ptr, hi |-> r.hi]
           ELSE ReadBraces(slice, r.ptr, k - 1, <<r.val>> \o acc)

RECURSIVE ReadHeredocs(_, _, _, _, _)
ReadHeredocs(slice, ptr, k, acc, hi) ==
  IF k = 0 THEN [ok |-> TRUE, val |-> acc, ptr |-> ptr, hi |-> hi]
  ELSE LET f == BUF_READ_U32(slice, ptr)
       IN  IF ~f.ok THEN [ok |-> FALSE, val |-> acc, ptr |-> f.ptr, hi |-> Max(hi, f.hi)]
           ELSE LET s == BUF_READ_ARRAY(slice, f.ptr)
                IN  IF ~s.ok
                    THEN [ok |-> FALSE, val |-> acc, ptr |-> s.ptr, hi |-> Max(hi, s.hi)]
                    ELSE ReadHeredocs(slice, s.ptr, k - 1,
                                      <<[sentinel |-> s.val, all_flags |-> f.val]>> \o acc,
                                      Max(hi, s.hi))

\* outcome "fresh": a slice of length 0; "ok": every read lay in the slice;
\* "ub": a read went to or beyond the end of the slice, whatever the
\* decoder then produced.  There is no rejection in the code.
Deserialize(slice) ==
  IF Len(slice) = 0 THEN Decoded("fresh", <<>>, <<>>, 0, 0)
  ELSE LET nb == BUF_READ_SIZE(slice, 0)
       IN  IF ~nb.ok THEN Decoded("ub", <<>>, <<>>, nb.hi, Len(slice))
           ELSE LET b == ReadBraces(slice, nb.ptr, nb.val, <<>>)
                IN  IF ~b.ok THEN Decoded("ub", b.val, <<>>, b.hi, Len(slice))
                    ELSE LET nh == BUF_READ_SIZE(slice, b.ptr)
                         IN  IF ~nh.ok THEN Decoded("ub", b.val, <<>>, nh.hi, Len(slice))
                             ELSE LET h == ReadHeredocs(slice, nh.ptr, nh.val, <<>>, nh.hi)
                                  IN  Decoded(IF h.ok THEN "ok" ELSE "ub",
                                              b.val, h.val, h.hi, Len(slice))

(***************************************************************************)
(* The state machine.                                                      *)
(***************************************************************************)
\* How the process goes on after a call that ended with outcome o.
StatusAfter(o) == IF o = "ok" THEN "running" ELSE o

\* tree_sitter_raku_external_scanner_create (lines 176-187).  state_ok,
\* brace_ok, heredoc_ok: whether malloc and the two callocs return memory.
\* None of the three results is tested: lines 181-185 write through them.
scanner_create(state_ok, brace_ok, heredoc_ok) ==
  LET bh == IF brace_ok THEN CreateBraceHeap ELSE [a \in BAddr |-> NoBraceFrame]
      hh == IF heredoc_ok THEN CreateHeredocHeap ELSE [a \in HAddr |-> NoHeredocFrame]
  IN  IF state_ok /\ brace_ok /\ heredoc_ok
      THEN [outcome |-> "ok", bmem |-> bh, hmem |-> hh,
            current_brace |-> 1, current_heredoc |-> 1]
      ELSE [outcome |-> "crashed", bmem |-> bh, hmem |-> hh,
            current_brace |-> NULL, current_heredoc |-> NULL]

\* The state after tree_sitter_raku_external_scanner_create, in either
\* build.
Init ==
  /\ ndebug \in BOOLEAN
  /\ \E state_ok \in BOOLEAN, brace_ok \in BOOLEAN, heredoc_ok \in BOOLEAN :
       LET r == scanner_create(state_ok, brace_ok, heredoc_ok)
       IN  /\ status = StatusAfter(r.outcome)
           /\ bmem = r.bmem
           /\ current_brace = r.current_brace
           /\ hmem = r.hmem
           /\ current_heredoc = r.current_heredoc
           /\ alloc_failed = ~(state_ok /\ brace_ok /\ heredoc_ok)
  /\ b_saved = <<>>
  /\ b_run = 0
  /\ op = "create"
  /\ arg = <<>>
  /\ ret = 0
  /\ buffer = <<>>
  /\ decoded = NoDecode
  /\ b_net = 0
  /\ hd_pushed = <<>>
  /\ hd_popped = <<>>

\* state->current_brace = brace_stack_push(state->current_brace, c)
BracePush(c, alloc_ok) ==
  /\ status = "running"
  /\ current_brace # NULL => bmem[current_brace].depth < MaxBrace
  /\ \E r \in {brace_stack_push(bmem, current_brace, c, alloc_ok)} :
         /\ status' = StatusAfter(r.outcome)
         /\ bmem' = r.mem
         /\ current_brace' = IF r.outcome = "ok" THEN r.ret ELSE current_brace
         /\ ret' = r.ret
         /\ b_net' = IF r.outcome = "ok" THEN b_net + 1 ELSE b_net
         /\ b_saved' = IF r.outcome = "ok"
                       THEN Append(b_saved, BraceSnapshot(bmem, current_brace))
                       ELSE b_saved
         /\ b_run' = IF r.outcome = "ok" THEN 0 ELSE b_run
  /\ alloc_failed' = ~alloc_ok
  /\ op' = "brace_push"
  /\ arg' = <<c>>
  /\ buffer' = <<>>
  /\ decoded' = NoDecode
  /\ UNCHANGED <<ndebug, hmem, current_heredoc, hd_pushed, hd_popped>>

\* A pop whose result is stored in both of the session's tops.
BracePopCrossed ==
  /\ status = "running"
  /\ \E r \in {brace_stack_pop(bmem, current_brace)} :
         /\ status' = StatusAfter(r.outcome)
         /\ bmem' = r.mem
         /\ current_brace' = IF r.outcome = "ok" THEN r.ret ELSE current_brace
         /\ ret' = r.ret
         /\ b_net' = IF r.outcome = "ok" THEN b_net - 1 ELSE b_net
         /\ b_saved' = IF r.outcome = "ok" /\ b_saved # <<>>
                       THEN SubSeq(b_saved, 1, Len(b_saved) - 1)
                       ELSE b_saved
         /\ b_run' = IF r.outcome = "ok" THEN b_run + 1 ELSE b_run
  /\ alloc_failed' = FALSE
  /\ op' = "brace_pop"
  /\ arg' = <<>>
  /\ buffer' = <<>>
  /\ decoded' = NoDecode
  /\ current_heredoc' = current_brace'
  /\ UNCHANGED <<ndebug, hmem, hd_pushed, hd_popped>>

\* state->current_brace = brace_stack_pop(state->current_brace)
BracePop ==
  /\ status = "running"
  /\ \E r \in {brace_stack_pop(bmem, current_brace)} :
         /\ status' = StatusAfter(r.outcome)
         /\ bmem' = r.mem
         /\ current_brace' = IF r.outcome = "ok" THEN r.ret ELSE current_brace
         /\ ret' = r.ret
         /\ b_net' = IF r.outcome = "ok" THEN b_net - 1 ELSE b_net
         /\ b_saved' = IF r.outcome = "ok" /\ b_saved # <<>>
                       THEN SubSeq(b_saved, 1, Len(b_saved) - 1)
                       ELSE b_saved
         /\ b_run' = IF r.outcome = "ok" THEN b_run + 1 ELSE b_run
  /\ alloc_failed' = FALSE
  /\ op' = "brace_pop"
  /\ arg' = <<>>
  /\ buffer' = <<>>
  /\ decoded' = NoDecode
  /\ UNCHANGED <<ndebug, hmem, current_heredoc, hd_pushed, hd_popped>>

\* state->current_heredoc = heredoc_stack_push(state->current_heredoc, sentinel)
HeredocPush(sentinel, junk) ==
  /\ status = "running"
  /\ Len(hd_pushed) < MaxHeredoc
  /\ \E r \in {heredoc_stack_push(hmem, current_heredoc, sentinel, junk)} :
         /\ status' = StatusAfter(r.outcome)
         /\ hmem' = r.mem
         /\ current_heredoc' = IF r.outcome = "ok" THEN r.ret ELSE current_heredoc
         /\ ret' = r.ret
         /\ hd_pushed' = IF r.outcome = "ok" THEN Append(hd_pushed, sentinel) ELSE hd_pushed
  /\ op' = "heredoc_push"
  /\ arg' = sentinel
  /\ buffer' = <<>>
  /\ decoded' = NoDecode
  /\ alloc_failed' = FALSE
  /\ UNCHANGED <<ndebug, bmem, current_brace, b_net, hd_popped, b_saved, b_run>>

\* state->current_heredoc = heredoc_stack_pop(state->current_heredoc)
HeredocPop ==
  /\ status = "running"
  /\ \E r \in {heredoc_stack_pop(hmem, current_heredoc)} :
         /\ status' = StatusAfter(r.outcome)
         /\ hmem' = r.mem
         /\ current_heredoc' = IF r.outcome = "ok" THEN r.ret ELSE current_heredoc
         /\ ret' = r.ret
         /\ hd_popped' = IF r.outcome = "ok"
                         THEN Append(hd_popped, hmem[current_heredoc].sentinel)
                         ELSE hd_popped
  /\ op' = "heredoc_pop"
  /\ arg' = <<>>
  /\ buffer' = <<>>
  /\ decoded' = NoDecode
  /\ alloc_failed' = FALSE
  /\ UNCHANGED <<ndebug, bmem, current_brace, b_net, hd_pushed, b_saved, b_run>>

(***************************************************************************)
(* The scan entry point.  scanner.c declares the token kinds (lines 18-24) *)
(* and defines no scan function; the one below follows the decision policy *)
(* of the design (section 4.4) and acts on the stacks only through         *)
(* brace_stack_push, brace_stack_pop and heredoc_stack_pop.                *)
(***************************************************************************)
QUOTE_CONS_OPEN == 0
QUOTE_CONS_CLOSE == 1
MULTILINE_COMMENT == 2
HEREDOC_BODY == 3
Tokens == {QUOTE_CONS_OPEN, QUOTE_CONS_CLOSE, MULTILINE_COMMENT, HEREDOC_BODY}

\* what ret holds when the scan reports no match
NoMatch == -1

\* The sets of valid token kinds the host passes.
ValidSets == SUBSET Tokens

\* #` , the opening of a multiline comment; it is followed by a bracket
CommentOpening == <<35, 96>>

\* The input ahead, up to the end of the line: [ , ] , x , the comment
\* #`() , the comment #`( that the input ends in, and the line E1.
Lookaheads == {<<91>>, <<93>>, <<120>>, <<35, 96, 40, 41>>, <<35, 96, 40>>, END1}

IsComment(la) == Len(la) >= 3 /\ SubSeq(la, 1, 2) = CommentOpening

\* How a scan ended, the token it reports, the session it leaves, and the
\* stack operations it executed ("nomem": a push whose malloc returned NULL).
Scanned(o, t, bm, cb, hm, ch, did) ==
  [outcome |-> o, token |-> t, bmem |-> bm, current_brace |-> cb,
   hmem |-> hm, current_heredoc |-> ch, did |-> did]

\* A multiline comment whose frame stays on the stack when the input ends
\* before the closing character.
ScanCommentUnwound(la, alloc_ok) ==
  LET p == brace_stack_push(bmem, current_brace, la[3], alloc_ok)
  IN  IF p.outcome # "ok"
      THEN Scanned(p.outcome, NoMatch, p.mem, current_brace, hmem, current_heredoc, "nomem")
      ELSE LET q      == brace_stack_pop(p.mem, p.ret)
               closed == Len(la) >= 4 /\ la[4] = p.mem[p.ret].closing_brace
           IN  IF ~closed
               THEN Scanned("ok", NoMatch, p.mem, p.ret, hmem, current_heredoc, "push")
               ELSE IF q.outcome # "ok"
               THEN Scanned(q.outcome, NoMatch, q.mem, p.ret, hmem, current_heredoc, "push")
               ELSE Scanned("ok", MULTILINE_COMMENT,
                            q.mem, q.ret, hmem, current_heredoc, "pushpop")

\* A multiline comment: a frame is pushed for the bracket after #` ; when
\* the closing character follows, the frame is popped and the comment is
\* the token; when the input ends first, the frame is popped and there is
\* no token.
ScanComment(la, alloc_ok) ==
  LET p == brace_stack_push(bmem, current_brace, la[3], alloc_ok)
  IN  IF p.outcome # "ok"
      THEN Scanned(p.outcome, NoMatch, p.mem, current_brace, hmem, current_heredoc, "nomem")
      ELSE LET q      == brace_stack_pop(p.mem, p.ret)
               closed == Len(la) >= 4 /\ la[4] = p.mem[p.ret].closing_brace
           IN  IF q.outcome # "ok"
               THEN Scanned(q.outcome, NoMatch, q.mem, p.ret, hmem, current_heredoc, "push")
               ELSE Scanned("ok", IF closed THEN MULTILINE_COMMENT ELSE NoMatch,
                            q.mem, q.ret, hmem, current_heredoc, "pushpop")

scanner_scan(valid, la, alloc_ok) ==
  LET same(o, t) == Scanned(o, t, bmem, current_brace, hmem, current_heredoc, "none")
  IN  \* state->current_heredoc->depth, state->current_brace->depth
      IF ~BValid(bmem, current_brace) \/ ~HValid(hmem, current_heredoc)
      THEN same("crashed", NoMatch)
      ELSE IF hmem[current_heredoc].depth > 0 /\ HEREDOC_BODY \in valid
      THEN LET chain == HeredocChain(hmem, current_heredoc)
           IN  IF la = hmem[chain[2]].sentinel
               THEN LET r == heredoc_stack_pop(hmem, current_heredoc)
                    IN  Scanned(r.outcome, HEREDOC_BODY, bmem, current_brace, r.mem,
                                IF r.outcome = "ok" THEN r.ret ELSE current_heredoc,
                                IF r.outcome = "ok" THEN "hpop" ELSE "none")
               ELSE same("ok", HEREDOC_BODY)
      ELSE IF MULTILINE_COMMENT \in valid /\ IsComment(la)
      THEN ScanComment(la, alloc_ok)
      ELSE IF /\ QUOTE_CONS_CLOSE \in valid
              /\ bmem[current_brace].depth > 0
              /\ la[1] = bmem[current_brace].closing_brace
      THEN LET r == brace_stack_pop(bmem, current_brace)
           IN  Scanned(r.outcome, QUOTE_CONS_CLOSE, r.mem,
                       IF r.outcome = "ok" THEN r.ret ELSE current_brace,
                       hmem, current_heredoc,
                       IF r.outcome = "ok" THEN "pop" ELSE "none")
      ELSE IF QUOTE_CONS_OPEN \in valid /\ la[1] \in OpeningChars
      THEN LET r == brace_stack_push(bmem, current_brace, la[1], alloc_ok)
           IN  Scanned(r.outcome, QUOTE_CONS_OPEN, r.mem,
                       IF r.outcome = "ok" THEN r.ret ELSE current_brace,
                       hmem, current_heredoc,
                       IF r.outcome = "ok" THEN "push" ELSE "nomem")
      ELSE same("ok", NoMatch)

Scan(valid, la, alloc_ok) ==
  /\ status = "running"
  /\ current_brace # NULL => bmem[current_brace].depth < MaxBrace
  /\ \E r \in {scanner_scan(valid, la, alloc_ok)} :
         /\ status' = StatusAfter(r.outcome)
         /\ bmem' = r.bmem
         /\ current_brace' = r.current_brace
         /\ hmem' = r.hmem
         /\ current_heredoc' = r.current_heredoc
         /\ ret' = IF r.outcome = "ok" THEN r.token ELSE NoMatch
         /\ b_net' = CASE r.did = "push" -> b_net + 1
                       [] r.did = "pop"  -> b_net - 1
                       [] OTHER          -> b_net
         /\ b_saved' = CASE r.did = "push" ->
                              Append(b_saved, BraceSnapshot(bmem, current_brace))
                         [] r.did = "pop" /\ b_saved # <<>> ->
                              SubSeq(b_saved, 1, Len(b_saved) - 1)
                         [] OTHER -> b_saved
         /\ b_run' = CASE r.did = "push"    -> 0
                       [] r.did = "pop"     -> b_run + 1
                       [] r.did = "pushpop" -> 1
                       [] OTHER             -> b_run
         /\ hd_popped' = IF r.did = "hpop"
                         THEN Append(hd_popped, hmem[current_heredoc].sentinel)
                         ELSE hd_popped
         /\ alloc_failed' = (r.did = "nomem")
  /\ op' = "scan"
  /\ arg' = la
  /\ buffer' = <<>>
  /\ decoded' = NoDecode
  /\ UNCHANGED <<ndebug, hd_pushed>>

Destroy ==
  /\ status = "running"
  /\ \E r \in {scanner_destroy} :
         /\ status' = r.outcome
         /\ bmem' = r.bmem
         /\ hmem' = r.hmem
  /\ op' = "destroy"
  /\ arg' = <<>>
  /\ ret' = 0
  /\ buffer' = <<>>
  /\ decoded' = NoDecode
  /\ alloc_failed' = FALSE
  /\ UNCHANGED <<ndebug, current_brace, current_heredoc, b_net, hd_pushed, hd_popped,
                 b_saved, b_run>>

Serialize ==
  /\ status = "running"
  /\ \E r \in {scanner_serialize} :
         /\ status' = StatusAfter(r.outcome)
         /\ buffer' = r.buf
         /\ ret' = r.ret
  /\ op' = "serialize"
  /\ arg' = <<>>
  /\ decoded' = NoDecode
  /\ alloc_failed' = FALSE
  /\ UNCHANGED <<ndebug, bmem, current_brace, hmem, current_heredoc,
                 b_net, hd_pushed, hd_popped, b_saved, b_run>>

\* What the host holds after a serialize that returned: the words of its
\* buffer, which has BufferSize bytes.
Stored == SubSeq(buffer, 1, IF Bytes(buffer) <= BufferSize THEN Len(buffer)
                            ELSE BufferSize \div BytesPerWord)

\* The host hands back the first n words of what it stored: all of them, or
\* a slice cut short.
DeserializeSlice(n) ==
  /\ status = "running"
  /\ op = "serialize"
  /\ n <= Len(Stored)
  /\ decoded' = Deserialize(SubSeq(Stored, 1, n))
  /\ op' = "deserialize"
  /\ arg' = <<n>>
  /\ ret' = 0
  /\ alloc_failed' = FALSE
  /\ UNCHANGED <<ndebug, status, bmem, current_brace, hmem, current_heredoc,
                 buffer, b_net, hd_pushed, hd_popped, b_saved, b_run>>

Next ==
  \/ \E c \in OpeningChars, alloc_ok \in BOOLEAN : BracePush(c, alloc_ok)
  \/ BracePop
  \/ \E s \in Sentinels : \E junk \in Indeterminate(current_heredoc) : HeredocPush(s, junk)
  \/ HeredocPop
  \/ Destroy
  \/ Serialize
  \/ \E n \in 0 .. (BufferSize \div BytesPerWord) : DeserializeSlice(n)

Spec == Init /\ [][Next]_vars

(***************************************************************************)
(* The same program started on a heredoc stack that already holds frames:  *)
(* the inputs heredoc_stack_pop, heredoc_stack_free and the serializer's   *)
(* second loop are written for (a non-root head with a non-null next,      *)
(* lines 90-92, 241-249).  No call of this file builds such a stack,       *)
(* heredoc_stack_push having no body.                                      *)
(***************************************************************************)
HeredocInputs ==
  {[sentinel |-> END1, all_flags |-> 2], [sentinel |-> END2, all_flags |-> 0]}

\* The chains above the root, the empty one included.
HeredocChains == UNION {[1 .. n -> HeredocInputs] : n \in 0 .. MaxHeredoc}

\* The heap holding the root and, above it, the frames of fs in order.
HeapOfChain(fs) ==
  [a \in HAddr |->
     IF a = 1 THEN heredoc_stack(0, <<>>, 0, NULL)
     ELSE IF a <= Len(fs) + 1
          THEN heredoc_stack(a - 1, fs[a - 1].sentinel, fs[a - 1].all_flags, a - 1)
          ELSE NoHeredocFrame]

InitFrames ==
  /\ ndebug \in BOOLEAN
  /\ status = "running"
  /\ bmem = CreateBraceHeap
  /\ current_brace = 1
  /\ \E fs \in HeredocChains :
       /\ hmem = HeapOfChain(fs)
       /\ current_heredoc = Len(fs) + 1
       /\ hd_pushed = [i \in 1 .. Len(fs) |-> fs[i].sentinel]
  /\ alloc_failed = FALSE
  /\ b_saved = <<>>
  /\ b_run = 0
  /\ op = "create"
  /\ arg = <<>>
  /\ ret = 0
  /\ buffer = <<>>
  /\ decoded = NoDecode
  /\ b_net = 0
  /\ hd_popped = <<>>

SpecFrames == InitFrames /\ [][Next]_vars

(***************************************************************************)
(* The session under the scan entry point: the host calls it with every    *)
(* set of valid token kinds; the brace stack is driven by the scan, the    *)
(* heredoc stack also by the grammar layer's calls.                        *)
(***************************************************************************)
NextScan ==
  \/ \E valid \in ValidSets, la \in Lookaheads, alloc_ok \in BOOLEAN :
       Scan(valid, la, alloc_ok)
  \/ \E s \in Sentinels : \E junk \in Indeterminate(current_heredoc) : HeredocPush(s, junk)
  \/ HeredocPop

SpecScan == InitFrames /\ [][NextScan]_vars

(***************************************************************************)
(* Properties.                                                             *)
(***************************************************************************)
\* The records of the first n heredoc frames of hl (the non-root frames from
\* the root outward), the n-th first: for each the flags word, the length
\* of the sentinel as a size_t, and the sentinel's codepoints.
RECURSIVE HeredocRecords(_, _)
HeredocRecords(hl, n) ==
  IF n = 0 THEN <<>>
  ELSE <<hl[n].all_flags, Len(hl[n].sentinel), 0>> \o hl[n].sentinel
         \o HeredocRecords(hl, n - 1)

\* Both stacks of the session are chains of live frames.
StacksIntact == BValid(bmem, current_brace) /\ HValid(hmem, current_heredoc)

\* The slice the last decode was given.
Slice == SubSeq(Stored, 1, arg[1])

\* C1: round trip.  Whenever the session's stacks are intact, serialize
\* produces an encoding that fits the buffer, and decoding all of it gives
\* back, from the root to the top, the closing delimiters of the brace stack
\* and the sentinels and flags of the heredoc stack.
C1_RoundTrip ==
  (op \in {"serialize", "deserialize"} /\ StacksIntact) =>
     /\ status = "running"
     /\ Bytes(buffer) <= BufferSize
     /\ (op = "deserialize" /\ decoded.length = Len(Stored)) =>
          /\ decoded.outcome = "ok"
          /\ decoded.braces = BraceList(bmem, current_brace)
          /\ decoded.heredocs = HeredocList(hmem, current_heredoc)

\* C2: after any sequence of pushes and pops, the top frame of each stack
\* has a depth equal to the pushes executed minus the pops executed.
C2_DepthIsNetPushes ==
  status = "running" =>
     /\ BValid(bmem, current_brace)
     /\ bmem[current_brace].depth = b_net
     /\ HValid(hmem, current_heredoc)
     /\ hmem[current_heredoc].depth = Len(hd_pushed) - Len(hd_popped)

\* C3: a pop called on the root frame of either stack is rejected with a
\* recoverable error: the process goes on and both stacks are unchanged.
C3_UnderflowRecoverable ==
  [][ /\ ( /\ op' = "brace_pop"
           /\ BValid(bmem, current_brace)
           /\ bmem[current_brace].depth = 0 )
         => ( /\ status' = "running"
              /\ bmem' = bmem /\ current_brace' = current_brace
              /\ hmem' = hmem /\ current_heredoc' = current_heredoc )
      /\ ( /\ op' = "heredoc_pop"
           /\ HValid(hmem, current_heredoc)
           /\ hmem[current_heredoc].depth = 0 )
         => ( /\ status' = "running"
              /\ bmem' = bmem /\ current_brace' = current_brace
              /\ hmem' = hmem /\ current_heredoc' = current_heredoc )
    ]_vars

\* C4: serialize never writes at an offset at or beyond the capacity of the
\* caller's buffer.
C4_NoWritePastCapacity ==
  op = "serialize" => Bytes(buffer) <= BufferSize

C6_HeredocDeclarationOrder ==
  /\ ( /\ status = "running"
       /\ op = "heredoc_push"
       /\ hd_pushed = <<END1, END2>>
       /\ hd_popped = <<>> )
     => \E a \in HAddr :
          /\ hmem[a].live
          /\ hmem[a].depth = 1
          /\ hmem[a].sentinel = END1
  /\ ( /\ op = "heredoc_pop"
       /\ hd_pushed = <<END1, END2>> )
     => ( status = "running" /\ hd_popped = <<END1>> )

\* C7: destroy terminates and releases every frame of both stacks, the
\* roots included.
C7_DestroyReleasesAll ==
  op = "destroy" =>
     /\ status = "destroyed"
     /\ \A a \in BAddr : ~bmem[a].live
     /\ \A a \in HAddr : ~hmem[a].live

C9_HeredocPushEffect ==
  [][ ( /\ op' = "heredoc_push"
        /\ HValid(hmem, current_heredoc) )
      => ( /\ status' = "running"
           /\ HValid(hmem', current_heredoc')
           /\ hmem'[current_heredoc'].depth = hmem[current_heredoc].depth + 1
           /\ hmem'[current_heredoc'].next = current_heredoc
           /\ hmem'[current_heredoc'].sentinel = arg'
           /\ hmem'[current_heredoc'].sentinel_length = Len(arg') )
    ]_vars

\* C10: a brace push on a non-null stack never fails, and its new top frame
\* holds the registered closing character of the opening character, or the
\* opening character itself when none is registered, at the parent's depth
\* plus one.
C10_BracePushEffect ==
  [][ ( /\ op' = "brace_push"
        /\ BValid(bmem, current_brace) )
      => ( /\ status' = "running"
           /\ BValid(bmem', current_brace')
           /\ bmem'[current_brace'].closing_brace =
                (IF BRACE_TABLE(arg'[1]) # 0 THEN BRACE_TABLE(arg'[1]) ELSE arg'[1])
           /\ bmem'[current_brace'].depth = bmem[current_brace].depth + 1
           /\ bmem'[current_brace'].next = current_brace )
    ]_vars

\* C11: the state Create returns holds two stacks of exactly one frame each,
\* the root: depth 0, no parent, no closing delimiter, no sentinel; the
\* session's two tops are these roots.
C11_CreateReturnsRoots ==
  (op = "create" /\ status = "running") =>
    /\ BValid(bmem, current_brace)
    /\ bmem[current_brace].depth = 0
    /\ bmem[current_brace].next = NULL
    /\ bmem[current_brace].closing_brace = 0
    /\ \A a \in BAddr : bmem[a].live => a = current_brace
    /\ HValid(hmem, current_heredoc)
    /\ hmem[current_heredoc].depth = 0
    /\ hmem[current_heredoc].next = NULL
    /\ hmem[current_heredoc].sentinel = <<>>
    /\ hmem[current_heredoc].sentinel_length = 0
    /\ \A a \in HAddr : hmem[a].live => a = current_heredoc

\* Create has returned a session.
C11_Created ==
  /\ op = "create"
  /\ status = "running"
  /\ ~alloc_failed
  /\ current_brace # NULL
  /\ current_heredoc # NULL

\* C12: n brace pushes followed by n pops give back the stack the first of
\* the pushes found: the same frames, at the same places, with the same
\* contents, in the same order.  b_saved holds the stack each push still
\* open found, the oldest first, so the n-th pop of such a run is the pop
\* that closes the first push of the run: every executed pop that closes a
\* push returns the stack that push found.
C12_PushPopRestores ==
  [][ ( /\ op' = "brace_pop"
        /\ status' = "running"
        /\ b_saved # <<>> )
      => ( /\ BraceSnapshot(bmem', current_brace') = b_saved[Len(b_saved)]
           /\ b_saved' = SubSeq(b_saved, 1, Len(b_saved) - 1) )
    ]_vars

\* Three pops in a row have just undone the three pushes above the root.
C12_ThreePushesUndone ==
  /\ op = "brace_pop"
  /\ status = "running"
  /\ b_run = 3
  /\ b_saved = <<>>
  /\ BValid(bmem, current_brace)
  /\ bmem[current_brace].depth = 0

C14_ChainInvariant ==
  status = "running" =>
    /\ BValid(bmem, current_brace)
    /\ LET ch == BraceChain(bmem, current_brace)
       IN  /\ Len(ch) = bmem[current_brace].depth + 1
           /\ \A i \in 1 .. Len(ch) :
                /\ BValid(bmem, ch[i])
                /\ bmem[ch[i]].depth = i - 1
                /\ bmem[ch[i]].next = IF i = 1 THEN NULL ELSE ch[i - 1]
           /\ \A i, j \in 1 .. Len(ch) : ch[i] = ch[j] => i = j
    /\ HValid(hmem, current_heredoc)
    /\ LET ch == HeredocChain(hmem, current_heredoc)
       IN  /\ Len(ch) = hmem[current_heredoc].depth + 1
           /\ \A i \in 1 .. Len(ch) :
                /\ HValid(hmem, ch[i])
                /\ hmem[ch[i]].depth = i - 1
                /\ hmem[ch[i]].next = IF i = 1 THEN NULL ELSE ch[i - 1]
           /\ \A i, j \in 1 .. Len(ch) : ch[i] = ch[j] => i = j

C16_AllocationFailureReported ==
  alloc_failed => status = "running"

\* C17: serialize only reads the session.  From every state the session
\* reaches, the call walks each stack from its top down to the root and
\* returns, and both stacks are then what they were before the call: the
\* same tops, the same frames with the same depths, delimiters, sentinels,
\* flags and links.
C17_SerializeReadOnly ==
  [][ op' = "serialize"
      => ( /\ status' = "running"
           /\ bmem' = bmem
           /\ current_brace' = current_brace
           /\ hmem' = hmem
           /\ current_heredoc' = current_heredoc )
    ]_vars

====
